---- MODULE Spec2Model ----
(***************************************************************************)
(* A model of morph-ui's generation / validation / cache / sandbox         *)
(* pipeline:                                                               *)
(*   - src/src/lib/security.ts        validateComponentCode, sanitizeCode  *)
(*   - src/src/lib/ai-generator.ts    generateAIComponent, fallbacks       *)
(*   - src/src/utils/dataFetcher.ts   fetchAiGeneratedUiComponent          *)
(*   - src/src/lib/session-manager.ts SessionManager                       *)
(*   - src/unnamed/part_010           AIResponseCache                      *)
(*   - src/src/components/SecureAICodeRenderer.tsx  host side of the       *)
(*     iframe handshake                                                    *)
(*                                                                         *)
(* Source text is modelled as a sequence of fragments.  A fragment is a    *)
(* piece of the text given as a string; the text is the concatenation of   *)
(* its fragments.  Fragments are cut so that every regular-expression      *)
(* match of the validator lies inside one fragment and covers it from its  *)
(* first character, which lets a match position (RegExp.lastIndex) be      *)
(* computed in characters from the fragments' lengths.                     *)
(***************************************************************************)
EXTENDS Integers, Sequences, FiniteSets, TLC

VARIABLES
    \* ---- validator (module state of security.ts) ----
    lastIndex,      \* lastIndex of every /g regex in DANGEROUS_PATTERNS
    lastCall,       \* the latest validateComponentCode call: code and result
    probe,          \* an earlier call kept for comparison with later ones
    \* ---- session registry, cache store, clock ----
    sessions,       \* SessionManager.sessions : sessionId -> SessionData
    minted,         \* number of identifiers randomUUID has produced so far
    db,             \* the ai_responses collection: a set of documents
    nextDocId,      \* _id given to the next inserted document
    now,            \* the clock, in hours
    \* ---- orchestrator requests ----
    req,            \* per request: position, options, locals, result
    passed,         \* sanitizedCode values returned by valid validations
    \* ---- sandbox host (SecureAICodeRenderer) ----
    isLoading, error, iframeReady,   \* the component's three useState cells
    component,      \* aiResponse.component currently passed as a prop
    dataProp,       \* the data prop: "given" by the parent or the "default" []
    boundary,       \* state of the iframe: document, timers
    loadTimer,      \* the timer started by the iframe element's onLoad
    inbox,          \* message events queued for the host window
    toBoundary,     \* RENDER_AI_CODE messages posted to the iframe, not yet handled
    sentCount,      \* RENDER_AI_CODE messages the host has posted for the current
                    \* aiResponse.component
    handled,        \* the message event handleMessage was last called with
    \* ---- theme switching (VisualizerClientWrapper) ----
    wrapper,        \* the component's useState cells: theme, isLoading, data, error
    regenerations   \* the regenerateComponent calls made so far

validatorVars == <<lastIndex, lastCall, probe>>
storeVars     == <<sessions, minted, db, nextDocId, now>>
requestVars   == <<req, passed>>
sandboxVars   == <<isLoading, error, iframeReady, component, dataProp, boundary,
                   loadTimer, inbox, toBoundary, sentCount, handled>>
visualizerVars == <<wrapper, regenerations>>
vars == <<lastIndex, lastCall, probe, sessions, minted, db, nextDocId, now,
          req, passed, isLoading, error, iframeReady, component, dataProp,
          boundary, loadTimer, inbox, toBoundary, sentCount, handled,
          wrapper, regenerations>>

\* The absent value (undefined / null) of an optional field.
None == "none"

(***************************************************************************)
(* Fragments.  White space between fragments is left out; Inline tells the *)
(* fragments that are followed on their line by the next fragment.  Every  *)
(* fragment that holds an export or import statement or a code fence       *)
(* starts a line.  EVAL_HEAD is followed by the next fragment without      *)
(* white space.                                                            *)
(* The three grave accents of a code fence are written \x60\x60\x60.       *)
(***************************************************************************)
FN_DECL   == "function GeneratedDataComponent() {"
RETURN_P  == "return ("
RETURN_R  == "return React"
OPEN_DIV  == "<div>"
CLOSE_DIV == "</div>"
CLOSE_BR  == "}"
CLOSE_RET == ");"
EVAL_CALL == "eval("
REQUIRE_C == "require("
OS_DOT    == "os."
USE_CLIENT == "'use client';"
FN_ERRFB  == "function ErrorFallback() {"
REACT_WIN == "const React = window.React || "
REACT_ARG == "'react');"
CREATE_EL == ".createElement('div', {className: 'p-6'}, 'Component Generation Failed');"
FB_HOOKS  == "const [data, setData] = useState([]); useEffect(() => { fetch('/api/get-data?endpoint=' + encodeURIComponent('"
FB_CALL   == "'));"
FB_EFFECT == "}, []);"
EXPORT_D  == "export default GeneratedDataComponent;"
ERR_TAIL  == "ErrorFallback;"
URL_SCHEME == "https:"
URL_CARS  == "//api.example.com/cars"
URL_PHOT  == "//api.example.com/phot"
URL_JSON  == "json"
REACT_EQ  == "const React = "
FENCE_JSX == "\\x60\\x60\\x60jsx"
FENCE_END == "\\x60\\x60\\x60"
COMMENT_B == "/* generated */"
COMMENT_L == "// generated"
IMPORT_L  == "import React from 'react';"
NAME_STMT == "GeneratedDataComponent;"
EVAL_HEAD == "ev"
EVAL_TAIL == "al("

\* Characters in a fragment (String.length).
FragLen(f) ==
    CASE f = FN_DECL    -> 35
      [] f = RETURN_P   -> 8
      [] f = RETURN_R   -> 12
      [] f = OPEN_DIV   -> 5
      [] f = CLOSE_DIV  -> 6
      [] f = CLOSE_BR   -> 1
      [] f = CLOSE_RET  -> 2
      [] f = EVAL_CALL  -> 5
      [] f = REQUIRE_C  -> 8
      [] f = OS_DOT     -> 3
      [] f = USE_CLIENT -> 13
      [] f = FN_ERRFB   -> 26
      [] f = REACT_WIN  -> 30
      [] f = REACT_ARG  -> 9
      [] f = CREATE_EL  -> 73
      [] f = FB_HOOKS   -> 110
      [] f = FB_CALL    -> 4
      [] f = FB_EFFECT  -> 7
      [] f = EXPORT_D   -> 38
      [] f = ERR_TAIL   -> 14
      [] f = URL_SCHEME -> 6
      [] f = URL_CARS   -> 22
      [] f = URL_PHOT   -> 22
      [] f = URL_JSON   -> 4
      [] f = REACT_EQ   -> 14
      [] f = FENCE_JSX  -> 6
      [] f = FENCE_END  -> 3
      [] f = COMMENT_B  -> 15
      [] f = COMMENT_L  -> 12
      [] f = IMPORT_L   -> 26
      [] f = NAME_STMT  -> 23
      [] f = EVAL_HEAD  -> 2
      [] f = EVAL_TAIL  -> 3
      [] OTHER          -> 1

RECURSIVE TextLen(_)
TextLen(code) ==
    IF code = <<>> THEN 0 ELSE FragLen(Head(code)) + TextLen(Tail(code))

\* Character offset at which fragment k of code starts.
Offset(code, k) == TextLen(SubSeq(code, 1, k - 1))

(***************************************************************************)
(* security.ts: the rule tables                                            *)
(***************************************************************************)
\* The regular expressions' sources, in the order of the array (the grave
\* accent of a character class is written \x60).  Each carries the flags g, i.
DANGEROUS_PATTERNS == <<
    "eval\\s*\\(", "Function\\s*\\(", "setTimeout\\s*\\(\\s*['\"\\x60]",
    "setInterval\\s*\\(\\s*['\"\\x60]", "document\\.write", "document\\.cookie",
    "window\\.open", "global\\.", "process\\.", "require\\s*\\(",
    "XMLHttpRequest", "localStorage", "sessionStorage", "indexedDB",
    "navigator\\.geolocation", "__dirname", "__filename", "fs\\.", "path\\.",
    "os\\.", "crypto\\.", "child_process", "innerHTML\\s*=", "outerHTML\\s*=",
    "dangerouslySetInnerHTML", "javascript:", "vbscript:", "data:.*script",
    "on\\w+\\s*=\\s*['\"\\x60]", "\\<script", "\\<iframe", "\\<object", "\\<embed" >>

PatternIds == 1..Len(DANGEROUS_PATTERNS)

\* Whether the regular expression DANGEROUS_PATTERNS[i] matches fragment f
\* (the match then covers f from its first character to its last).
FragMatches(i, f) ==
    \/ i = 1  /\ f = EVAL_CALL
    \/ i = 10 /\ f = REQUIRE_C
    \/ i = 20 /\ f = OS_DOT

\* Whether the regular expression DANGEROUS_PATTERNS[i] matches the text of
\* fragment f directly followed by fragment g (the match then covers both).
PairMatches(i, f, g) == i = 1 /\ f = EVAL_HEAD /\ g = EVAL_TAIL

REQUIRED_PATTERNS == <<
    "function\\s+GeneratedDataComponent",
    "(return\\s*\\(|return\\s+\\<|return\\s+React)" >>

\* REQUIRED_PATTERNS carry no g flag: test() always searches from the start.
RequiredMatches(j, f) ==
    \/ j = 1 /\ f = FN_DECL
    \/ j = 2 /\ f \in {RETURN_P, RETURN_R}

\* code.includes('function GeneratedDataComponent')
IncludesName(f) == f = FN_DECL

\* Matches of /\<[a-zA-Z][^>]*[^\/]>/g and of /\<\/[a-zA-Z][^>]*>/g in f.
OpenTagsIn(f)  == IF f = OPEN_DIV THEN 1 ELSE 0
CloseTagsIn(f) == IF f = CLOSE_DIV THEN 1 ELSE 0

RECURSIVE CountTags(_, _)
CountTags(code, open) ==
    IF code = <<>> THEN 0
    ELSE (IF open THEN OpenTagsIn(Head(code)) ELSE CloseTagsIn(Head(code)))
         + CountTags(Tail(code), open)

Abs(n) == IF n < 0 THEN -n ELSE n

Min(S) == CHOOSE m \in S : \A n \in S : m <= n

(***************************************************************************)
(* RegExp.prototype.test on a regex with the g flag: the search starts at  *)
(* lastIndex; a match moves lastIndex to the end of the match, a failure   *)
(* resets it to 0.                                                         *)
(***************************************************************************)
\* The patterns FragMatches gives a matching fragment.
MatchedPatterns == {1, 10, 20}

\* A match of DANGEROUS_PATTERNS[i] starts with fragment k of code.
MatchAt(i, code, k) ==
    \/ FragMatches(i, code[k])
    \/ k < Len(code) /\ PairMatches(i, code[k], code[k + 1])

\* The offset of the character behind that match.
MatchEnd(i, code, k) ==
    Offset(code, k) + FragLen(code[k])
      + (IF FragMatches(i, code[k]) THEN 0 ELSE FragLen(code[k + 1]))

MatchesFrom(i, code, li) ==
    IF i \notin MatchedPatterns THEN {}
    ELSE {k \in 1..Len(code) : MatchAt(i, code, k) /\ Offset(code, k) >= li}

GlobalTest(i, code, li) == MatchesFrom(i, code, li) # {}

GlobalTestLastIndex(i, code, li) ==
    IF MatchesFrom(i, code, li) = {} THEN 0
    ELSE MatchEnd(i, code, Min(MatchesFrom(i, code, li)))

\* test() of a regex without the g flag.
PlainTest(j, code) == \E k \in 1..Len(code) : RequiredMatches(j, code[k])

(***************************************************************************)
(* security.ts: sanitizeCode                                               *)
(***************************************************************************)
IsFence(f) == f \in {FENCE_JSX, FENCE_END}

\* /\/\*[\s\S]*?\*\//g matches the fragment.
IsBlockComment(f) == f = COMMENT_B

\* The fragment starts with two slashes: /\/\/.*$/gm matches from its first
\* character to the end of its line.
StartsLineComment(f) == f \in {COMMENT_L, URL_CARS, URL_PHOT}

\* The next fragment of the text stands on the same line as f.
Inline(f) ==
    f \in {FB_HOOKS, URL_SCHEME, URL_CARS, URL_PHOT, OS_DOT, URL_JSON, REACT_EQ,
           REACT_WIN, REQUIRE_C, EVAL_CALL, RETURN_R}

\* replace(/\/\/.*$/gm, ''): inComment tells that a match is going on.
RECURSIVE StripLineComments(_, _)
StripLineComments(text, inComment) ==
    IF text = <<>> THEN <<>>
    ELSE LET f == Head(text)
         IN  IF inComment \/ StartsLineComment(f)
             THEN StripLineComments(Tail(text), Inline(f))
             ELSE <<f>> \o StripLineComments(Tail(text), FALSE)

\* Braces of f outside string literals: +1 for an unmatched {, -1 for an
\* unmatched }.  A fragment whose first (last) character is an unpaired quote
\* closes (opens) a string literal.
BraceDelta(f) ==
    CASE f \in {FN_DECL, FN_ERRFB, FB_HOOKS} -> 1
      [] f \in {CLOSE_BR, FB_EFFECT}         -> -1
      [] OTHER                               -> 0
QuoteAtStart(f) == f = FB_CALL
QuoteAtEnd(f)   == f = FB_HOOKS

\* The loop of lines 133-160: the index in functionCode of the brace that
\* closes the function, 0 when there is none (endIndex = -1).
RECURSIVE MatchingBrace(_, _, _, _)
MatchingBrace(functionCode, i, braceCount, inString) ==
    IF i > Len(functionCode) THEN 0
    ELSE LET f      == functionCode[i]
             inStr1 == IF QuoteAtStart(f) THEN ~inString ELSE inString
             count1 == IF inStr1 THEN braceCount ELSE braceCount + BraceDelta(f)
             inStr2 == IF QuoteAtEnd(f) THEN ~inStr1 ELSE inStr1
         IN  IF ~inStr1 /\ BraceDelta(f) = -1 /\ count1 = 0 THEN i
             ELSE MatchingBrace(functionCode, i + 1, count1, inStr2)

\* /(function\s+GeneratedDataComponent\s*\([^)]*\)\s*\{[\s\S]*)/ : the index of
\* the first fragment that declares the function, 0 when there is none.
FunctionMatch(text) ==
    IF \E k \in 1..Len(text) : text[k] = FN_DECL
    THEN Min({k \in 1..Len(text) : text[k] = FN_DECL})
    ELSE 0

\* replace(/^export\s+(default\s+)?/gm, '') on one fragment.
StripExport(f) == IF f = EXPORT_D THEN NAME_STMT ELSE f

sanitizeCode(code) ==
    LET noFence    == SelectSeq(code, LAMBDA f : ~IsFence(f))
        noBlock    == SelectSeq(noFence, LAMBDA f : ~IsBlockComment(f))
        noComment  == StripLineComments(noBlock, FALSE)
        start      == FunctionMatch(noComment)
        functionCode == IF start = 0 THEN <<>>
                        ELSE SubSeq(noComment, start, Len(noComment))
        endIndex   == MatchingBrace(functionCode, 1, 0, FALSE)
        extracted  == IF start # 0 /\ endIndex # 0
                      THEN SubSeq(functionCode, 1, endIndex)
                      ELSE noComment
        noImport   == SelectSeq(extracted, LAMBDA f : f # IMPORT_L)
    IN  [k \in 1..Len(noImport) |-> StripExport(noImport[k])]

(***************************************************************************)
(* security.ts: validateComponentCode.  li is the lastIndex of every       *)
(* dangerous pattern when the call starts; the result carries the values   *)
(* the call leaves behind.  An undefined sanitizedCode is the empty text   *)
(* (the sanitized text of a valid code still holds its function header).   *)
(***************************************************************************)
DangerError(i)   == <<"Dangerous pattern detected", DANGEROUS_PATTERNS[i]>>
RequiredError(j) == <<"Required pattern missing", REQUIRED_PATTERNS[j]>>
JsxError         == <<"JSX structure appears malformed - check for unclosed tags">>
NameError        == <<"Component must be named exactly \"GeneratedDataComponent\"">>

\* The tag-count slack of line 85.
TAG_SLACK == 2

\* Lines 54-58: every pattern is tested on every call.
DangerHits(code, li) ==
    SelectSeq([i \in PatternIds |-> i], LAMBDA i : GlobalTest(i, code, li[i]))

validateErrors(code, li) ==
    LET dangerHits == DangerHits(code, li)
        dangerous == [k \in 1..Len(dangerHits) |-> DangerError(dangerHits[k])]
        missing   == SelectSeq([j \in 1..Len(REQUIRED_PATTERNS) |-> j],
                               LAMBDA j : ~PlainTest(j, code))
        required  == [k \in 1..Len(missing) |-> RequiredError(missing[k])]
        jsx       == IF Abs(CountTags(code, TRUE) - CountTags(code, FALSE)) > TAG_SLACK
                     THEN <<JsxError>> ELSE <<>>
        name      == IF \E k \in 1..Len(code) : IncludesName(code[k])
                     THEN <<>> ELSE <<NameError>>
    IN  dangerous \o required \o jsx \o name

validateComponentCode(code, li) ==
    LET errors == validateErrors(code, li)
    IN  [isValid       |-> errors = <<>>,
         errors        |-> errors,
         sanitizedCode |-> IF errors = <<>> THEN sanitizeCode(code) ELSE <<>>,
         lastIndex     |-> [i \in PatternIds |-> GlobalTestLastIndex(i, code, li[i])]]

(***************************************************************************)
(* The fallback texts the sources construct                                *)
(***************************************************************************)
\* ai-generator.ts FALLBACK_COMPONENT
FALLBACK_COMPONENT ==
    <<USE_CLIENT, FN_DECL, REACT_EQ, REQUIRE_C, REACT_ARG, RETURN_R, CREATE_EL, CLOSE_BR>>

\* The text of an endpoint URL, cut at the validator's matches.
EndpointText(apiEndpoint) ==
    CASE apiEndpoint = "E1" -> <<URL_SCHEME, URL_CARS>>
                               \* https://api.example.com/cars
      [] apiEndpoint = "E2" -> <<URL_SCHEME, URL_PHOT, OS_DOT, URL_JSON>>
                               \* https://api.example.com/photos.json
      [] OTHER              -> <<>>

\* ai-generator.ts generateFallbackComponent: the endpoint is spliced into the
\* fetch call of the template.
generateFallbackComponent(apiEndpoint) ==
    <<FN_DECL, FB_HOOKS>> \o EndpointText(apiEndpoint)
      \o <<FB_CALL, FB_EFFECT, RETURN_P, OPEN_DIV, CLOSE_DIV, CLOSE_RET, CLOSE_BR,
           EXPORT_D>>

\* dataFetcher.ts: the component of the catch block's fallback response.
ErrorFallbackComponent ==
    <<USE_CLIENT, REACT_WIN, REQUIRE_C, REACT_ARG, FN_ERRFB, RETURN_R, CREATE_EL,
      CLOSE_BR, ERR_TAIL>>

(***************************************************************************)
(* Bounds and input sets                                                   *)
(***************************************************************************)
MaxTextLen == 1

\* Texts the model may answer with (completion.choices[0].message.content).
GoodCode == <<FENCE_JSX, FN_DECL, RETURN_P, OPEN_DIV, CLOSE_DIV, CLOSE_RET,
              CLOSE_BR, EXPORT_D, FENCE_END>>
EvalCode == <<FN_DECL, EVAL_CALL, CLOSE_RET, RETURN_P, OPEN_DIV, CLOSE_DIV,
              CLOSE_RET, CLOSE_BR>>
NoFunctionCode == <<RETURN_P, OPEN_DIV, CLOSE_DIV, CLOSE_RET>>

ModelAnswers == {GoodCode, EvalCode}

\* A text with a block comment inside the letters of a call:
\* function GeneratedDataComponent() { ev/* generated */al( ); return ( ... ); }
SplitEvalCode == <<FN_DECL, EVAL_HEAD, COMMENT_B, EVAL_TAIL, CLOSE_RET, RETURN_P,
                   OPEN_DIV, CLOSE_DIV, CLOSE_RET, CLOSE_BR>>

\* Fragments a generated text is built from.
GenAlphabet == {FN_DECL, RETURN_P, OPEN_DIV, EVAL_CALL, REQUIRE_C, OS_DOT}

BoundedTexts == UNION {[1..n -> GenAlphabet] : n \in 0..MaxTextLen}

Endpoints == {"E1", "E2"}

FallbackTexts ==
    {FALLBACK_COMPONENT, ErrorFallbackComponent}
      \cup {generateFallbackComponent(e) : e \in Endpoints}

ValidatorInputs ==
    BoundedTexts \cup FallbackTexts \cup ModelAnswers \cup {NoFunctionCode, SplitEvalCode}

NoCall == [made |-> FALSE, code |-> <<>>, isValid |-> FALSE, errors |-> <<>>]

InitValidator ==
    /\ lastIndex = [i \in PatternIds |-> 0]
    /\ lastCall = NoCall
    /\ probe = NoCall

(***************************************************************************)
(* A call of validateComponentCode on the shared module state.  keep       *)
(* remembers the call in probe for comparison with later calls.            *)
(***************************************************************************)
Validate(code, keep) ==
    \E r \in {validateComponentCode(code, lastIndex)} :
        LET call == [made |-> TRUE, code |-> code, isValid |-> r.isValid,
                     errors |-> r.errors]
        IN  /\ lastIndex' = r.lastIndex
            /\ lastCall' = call
            /\ probe' = IF keep THEN call ELSE probe
            /\ UNCHANGED <<visualizerVars, storeVars, requestVars, sandboxVars>>

NextValidator == \E code \in ValidatorInputs, keep \in BOOLEAN : Validate(code, keep)

(***************************************************************************)
(* Session registry (session-manager.ts).  Identifiers are integers:       *)
(* randomUUID returns 1, 2, ... (each new, none predictable), an           *)
(* identifier made up by a caller is ClientId, NoId is an absent one.      *)
(***************************************************************************)
NoId     == 0
ClientId == -1

MaxRequests == 2
MaxInFlight == 2
MaxClock    == 25
ClockStep   == 25

CacheKeys == {"K1", "K2"}
Reqs      == 1..MaxRequests
MintedIds == 1..MaxRequests
AllIds    == MintedIds \cup {ClientId}

SESSION_EXPIRY_HOURS == 24
DEFAULT_TTL_HOURS    == 24

NoSession == [present |-> FALSE, apiEndpoints |-> [e \in Endpoints |-> None],
              createdAt |-> 0, lastAccessedAt |-> 0]

NewSession(t) == [present |-> TRUE, apiEndpoints |-> [e \in Endpoints |-> None],
                  createdAt |-> t, lastAccessedAt |-> t]

\* isValidSession
isValidSession(ss, sessionId, t) ==
    /\ sessionId \in AllIds
    /\ ss[sessionId].present
    /\ t - ss[sessionId].lastAccessedAt < SESSION_EXPIRY_HOURS

\* getSessionId: the cookie's value when it names a valid session, else null.
getSessionId(ss, cookie, t) ==
    IF cookie # NoId /\ isValidSession(ss, cookie, t) THEN cookie ELSE NoId

\* generateSessionId: registers a session under a new random identifier.
generateSessionId(ss, n, t) == [ss EXCEPT ![n + 1] = NewSession(t)]

\* getOrCreateSessionData followed by the two updates of
\* storeApiEndpointForSession.
storeApiEndpointForSession(ss, sessionId, apiEndpoint, cacheKey, t) ==
    LET session == IF ss[sessionId].present THEN ss[sessionId] ELSE NewSession(t)
    IN  [ss EXCEPT ![sessionId] =
            [session EXCEPT !.apiEndpoints[apiEndpoint] = cacheKey,
                            !.lastAccessedAt = t]]

\* cleanupExpiredSessions, run by the hourly interval timer.
cleanupExpiredSessions(ss, t) ==
    [id \in AllIds |->
        IF ss[id].present /\ t - ss[id].lastAccessedAt >= SESSION_EXPIRY_HOURS
        THEN NoSession ELSE ss[id]]

(***************************************************************************)
(* Cache store (part_010 AIResponseCache over the ai_responses collection  *)
(* of part_016).                                                           *)
(***************************************************************************)
NoDoc == 0

\* The expiresAt of a document that has none (the field is optional in the
\* schema).
NoExpiry == -1

\* findOne(query).sort({createdAt: -1}): the query of getCachedResponse holds
\* apiEndpoint and, when given, sessionId; the cacheKey line is commented out.
LookupMatches(docs, apiEndpoint, sessionId) ==
    {d \in docs : /\ d.apiEndpoint = apiEndpoint
                  /\ (sessionId # NoId => d.sessionId = sessionId)}

MostRecent(ds) ==
    CHOOSE d \in ds : \A o \in ds :
        o.createdAt < d.createdAt \/ (o.createdAt = d.createdAt /\ o.id <= d.id)

\* cachedResponse.expiresAt && new Date() > cachedResponse.expiresAt
IsExpired(d, t) == d.expiresAt # NoExpiry /\ t > d.expiresAt

\* deleteCachedResponse: deleteOne({apiEndpoint, cacheKey, sessionId?}).
DeleteMatches(docs, apiEndpoint, cacheKey, sessionId) ==
    {d \in docs : /\ d.apiEndpoint = apiEndpoint
                  /\ d.cacheKey = cacheKey
                  /\ (sessionId # NoId => d.sessionId = sessionId)}

deleteCachedResponse(docs, apiEndpoint, cacheKey, sessionId) ==
    LET ms == DeleteMatches(docs, apiEndpoint, cacheKey, sessionId)
    IN  IF ms = {} THEN docs
        ELSE docs \ {CHOOSE d \in ms : \A o \in ms : d.id <= o.id}

\* updateAccessStats: findByIdAndUpdate(_id, {$inc accessCount, $set lastAccessedAt}).
updateAccessStats(docs, cacheId, t) ==
    {IF d.id = cacheId
     THEN [d EXCEPT !.accessCount = @ + 1, !.lastAccessedAt = t]
     ELSE d : d \in docs}

\* The filter of the upsert in storeCachedResponse.
UpsertMatches(docs, apiEndpoint, cacheKey, sessionId) ==
    {d \in docs : /\ d.apiEndpoint = apiEndpoint
                  /\ d.cacheKey = cacheKey
                  /\ d.sessionId = sessionId}

\* The unique index {apiEndpoint: 1} of the schema: an insert of a second
\* document with the same apiEndpoint is refused (duplicate key).
UniqueIndexAllows(docs, apiEndpoint) ==
    \A d \in docs : d.apiEndpoint # apiEndpoint

\* storeCachedResponse: whether the findOneAndUpdate upsert goes through.
StoreSucceeds(docs, apiEndpoint, cacheKey, sessionId) ==
    \/ UpsertMatches(docs, apiEndpoint, cacheKey, sessionId) # {}
    \/ UniqueIndexAllows(docs, apiEndpoint)

\* storeCachedResponse: the collection after a successful upsert
\* (ttlHours = 0 stands for an absent option: options.ttlHours || DEFAULT).
storeCachedResponse(docs, docId, apiEndpoint, cacheKey, sessionId, ttlHours, aiResponse, t) ==
    LET ms == UpsertMatches(docs, apiEndpoint, cacheKey, sessionId)
        expiresAt == t + (IF ttlHours = 0 THEN DEFAULT_TTL_HOURS ELSE ttlHours)
    IN  IF ms # {}
        THEN LET old == CHOOSE d \in ms : \A o \in ms : d.id <= o.id
             IN  (docs \ {old}) \cup
                 {[old EXCEPT !.aiResponse = aiResponse, !.accessCount = 0,
                              !.lastAccessedAt = t,
                              !.expiresAt = expiresAt]}
        ELSE docs \cup
             {[id |-> docId, apiEndpoint |-> apiEndpoint, cacheKey |-> cacheKey,
               sessionId |-> sessionId, aiResponse |-> aiResponse,
               accessCount |-> 0, lastAccessedAt |-> t, createdAt |-> t,
               expiresAt |-> expiresAt]}

\* The cleanupExpiredCache that deletes nothing.
cleanupExpiredCache_KeepsAll(docs, t) == docs

\* cleanupExpiredCache: deleteMany({expiresAt: {$lt: new Date()}}); a document
\* without the field does not match.
cleanupExpiredCache(docs, t) ==
    {d \in docs : ~(d.expiresAt # NoExpiry /\ d.expiresAt < t)}

InitStore ==
    /\ sessions = [id \in AllIds |-> NoSession]
    /\ minted = 0
    /\ db = {}
    /\ nextDocId = 1
    /\ now = 0

(***************************************************************************)
(* ai-generator.ts: generateAIComponent                                    *)
(***************************************************************************)
NoResponse == [present |-> FALSE, success |-> FALSE, component |-> <<>>,
               componentName |-> None, error |-> None, dataSource |-> None]

\* Lines 327-337: the response for a code that failed validation.
ValidationFailedResponse(apiEndpoint) ==
    [present |-> TRUE, success |-> FALSE, component |-> <<>>,
     componentName |-> "GeneratedDataComponent",
     error |-> "Component validation failed", dataSource |-> apiEndpoint]

\* Lines 343-352: the response for a code that passed validation.
SuccessResponse(apiEndpoint, sanitizedCode) ==
    [present |-> TRUE, success |-> TRUE, component |-> sanitizedCode,
     componentName |-> "GeneratedDataComponent",
     error |-> None, dataSource |-> apiEndpoint]

\* ResponseFor without the isValid test of line 327.
ResponseFor_Unchecked(apiEndpoint, componentCode, validation) ==
    SuccessResponse(apiEndpoint, sanitizeCode(componentCode))

\* Lines 320-352: validation decides what generateAIComponent returns.
ResponseFor(apiEndpoint, componentCode, validation) ==
    IF ~validation.isValid
    THEN ValidationFailedResponse(apiEndpoint)
    ELSE SuccessResponse(apiEndpoint, validation.sanitizedCode)

\* Lines 353-368: the response of the catch block.
CaughtResponse(message) ==
    [present |-> TRUE, success |-> FALSE, component |-> <<>>,
     componentName |-> "GeneratedDataComponent",
     error |-> message, dataSource |-> "unknown"]

(***************************************************************************)
(* dataFetcher.ts: fetchAiGeneratedUiComponent, and the page-level         *)
(* generateServerSideComponent of app/page.tsx (kind "page"), which calls  *)
(* generateAIComponent without an apiEndpoint.  A request is at:           *)
(*   idle      not started                                                 *)
(*   find      awaiting the findOne of getCachedResponse                   *)
(*   delete    awaiting deleteCachedResponse (expired entry)               *)
(*   touch     awaiting updateAccessStats (entry found)                    *)
(*   fetchData awaiting fetchAPIData inside generateAIComponent            *)
(*   genCode   awaiting generateAiCode inside generateAIComponent          *)
(*   store     awaiting storeCachedResponse                                *)
(*   done      returned                                                    *)
(***************************************************************************)
NoResult == [success |-> FALSE, aiResponse |-> NoResponse, error |-> None]

IdleRequest ==
    [pc |-> "idle", kind |-> None, apiEndpoint |-> None, cacheKey |-> None,
     enableCaching |-> FALSE, sessionId |-> NoId, sessionFrom |-> None,
     lookup |-> "none", found |-> NoDoc, foundResponse |-> NoResponse,
     genInvoked |-> FALSE, upstream |-> "none", violations |-> <<>>,
     aiResponse |-> NoResponse, stored |-> "none", result |-> NoResult,
     prior |-> {}, ttlHours |-> 0, calledAt |-> 0, deletedCount |-> 0,
     setCookie |-> NoId, endpoints |-> {}]

InitRequests ==
    /\ req = [r \in Reqs |-> IdleRequest]
    /\ passed = {}

Done(r) == req[r].pc = "done"

\* Request slots are taken in order, and at most MaxInFlight calls run at once.
CanStart(r) ==
    /\ req[r].pc = "idle"
    /\ \A q \in Reqs : q < r => req[q].pc # "idle"
    /\ Cardinality({q \in Reqs : req[q].pc \notin {"idle", "done"}}) < MaxInFlight

\* Line 116 of dataFetcher.ts / line 16 of page.tsx: generateAIComponent is
\* called and starts fetchAPIData.
EnterGenerate(rec) == [rec EXCEPT !.pc = "fetchData", !.genInvoked = TRUE]

\* Lines 93-97: the response returned on a cache hit.
HitResult(rec, data) ==
    [rec EXCEPT !.pc = "done", !.lookup = "hit",
                !.result = [success |-> TRUE, aiResponse |-> data, error |-> None]]

\* AfterLookup without the return of lines 84-98: generation also runs on a hit.
AfterLookup_AlwaysGenerate(rec, found, data) ==
    EnterGenerate([rec EXCEPT !.lookup = IF found /\ data.present THEN "hit"
                                         ELSE "miss",
                              !.foundResponse = data])

\* Lines 84-123: what follows the cache lookup.
AfterLookup(rec, found, data) ==
    IF found /\ data.present
    THEN HitResult(rec, data)
    ELSE EnterGenerate([rec EXCEPT !.lookup = "miss"])

\* Lines 29-69 (and 105-116 when caching is off): a call with its options,
\* up to the cache lookup.  optSessionId is options.sessionId, cookie the value
\* of the request's session cookie; fallbackOnError keeps its default.
StartFetch(r, apiEndpoint, cacheKey, optSessionId, cookie, enableCaching) ==
    LET existing == getSessionId(sessions, cookie, now)
        mint     == optSessionId = NoId /\ existing = NoId
        sessionId == IF optSessionId # NoId THEN optSessionId
                     ELSE IF existing # NoId THEN existing
                     ELSE minted + 1
        ss1      == IF mint THEN generateSessionId(sessions, minted, now) ELSE sessions
        rec1     == [req[r] EXCEPT !.kind = "fetch", !.apiEndpoint = apiEndpoint,
                                   !.cacheKey = cacheKey,
                                   !.enableCaching = enableCaching,
                                   !.sessionId = sessionId,
                                   !.sessionFrom = IF optSessionId # NoId THEN "option"
                                                   ELSE IF existing # NoId THEN "cookie"
                                                   ELSE "minted",
                                   !.prior = {q \in Reqs : Done(q)}]
    IN  /\ CanStart(r)
        /\ mint => minted < MaxRequests
        /\ minted' = IF mint THEN minted + 1 ELSE minted
        /\ sessions' = storeApiEndpointForSession(ss1, sessionId, apiEndpoint,
                                                  cacheKey, now)
        /\ req' = [req EXCEPT ![r] =
              IF enableCaching THEN [rec1 EXCEPT !.pc = "find"]
              ELSE EnterGenerate(rec1)]
        /\ UNCHANGED <<visualizerVars, validatorVars, db, nextDocId, now, passed, sandboxVars>>

\* Lines 41-70 of part_010 up to the first await after findOne: a store error
\* is caught and reported as not found.
CacheFind(r, dbOk) ==
    LET rec == req[r]
        ms  == LookupMatches(db, rec.apiEndpoint, rec.sessionId)
    IN  /\ rec.pc = "find"
        /\ req' = [req EXCEPT ![r] =
              IF ~dbOk \/ ms = {} THEN AfterLookup(rec, FALSE, NoResponse)
              ELSE LET d == MostRecent(ms)
                   IN  IF IsExpired(d, now)
                       THEN [rec EXCEPT !.pc = "delete", !.found = d.id]
                       ELSE [rec EXCEPT !.pc = "touch", !.found = d.id,
                                        !.foundResponse = d.aiResponse]]
        /\ UNCHANGED <<visualizerVars, validatorVars, storeVars, passed, sandboxVars>>

\* Lines 65-70 of part_010: the expired entry is deleted, the lookup misses.
CacheDeleteExpired(r, dbOk) ==
    LET rec == req[r]
    IN  /\ rec.pc = "delete"
        /\ db' = IF dbOk
                 THEN deleteCachedResponse(db, rec.apiEndpoint, rec.cacheKey, rec.sessionId)
                 ELSE db
        /\ req' = [req EXCEPT ![r] = AfterLookup(rec, FALSE, NoResponse)]
        /\ UNCHANGED <<visualizerVars, validatorVars, sessions, minted, nextDocId, now, passed,
                       sandboxVars>>

\* Lines 72-84 of part_010: the access statistics are updated (an error of the
\* update is caught inside updateAccessStats), the lookup hits.
CacheTouch(r, dbOk) ==
    LET rec == req[r]
    IN  /\ rec.pc = "touch"
        /\ db' = IF dbOk THEN updateAccessStats(db, rec.found, now) ELSE db
        /\ req' = [req EXCEPT ![r] = AfterLookup(rec, TRUE, rec.foundResponse)]
        /\ UNCHANGED <<visualizerVars, validatorVars, sessions, minted, nextDocId, now, passed,
                       sandboxVars>>

\* Lines 35 and 38 of dataFetcher.ts: the defaults of the options
\* fallbackOnError and cacheTtlHours.
FALLBACK_ON_ERROR == TRUE
CACHE_TTL_HOURS   == 24

\* Lines 152-167 of dataFetcher.ts.
ReturnResult(rec, aiResponse) ==
    [rec EXCEPT !.pc = "done", !.aiResponse = aiResponse,
                !.result = IF aiResponse.success
                           THEN [success |-> TRUE, aiResponse |-> aiResponse,
                                 error |-> None]
                           ELSE [success |-> FALLBACK_ON_ERROR,
                                 aiResponse |-> aiResponse,
                                 error |-> aiResponse.error]]

\* What the caller does with the response of generateAIComponent: page.tsx
\* line 27 returns it, dataFetcher.ts lines 125-167 store and return it.
AfterGenerate(rec, aiResponse) ==
    IF rec.kind = "page"
    THEN [rec EXCEPT !.pc = "done", !.aiResponse = aiResponse,
                     !.result = [success |-> aiResponse.success,
                                 aiResponse |-> aiResponse,
                                 error |-> aiResponse.error]]
    ELSE IF aiResponse.success /\ rec.enableCaching
         THEN [rec EXCEPT !.pc = "store", !.aiResponse = aiResponse]
         ELSE ReturnResult(rec, aiResponse)

\* ai-generator.ts lines 17-45 and 309-311: fetchAPIData answers or throws
\* (it throws at once when there is no apiEndpoint to fetch).
FetchData(r, ok) ==
    LET rec == req[r]
    IN  /\ rec.pc = "fetchData"
        /\ ok => rec.apiEndpoint # None
        /\ req' = [req EXCEPT ![r] =
              IF ok THEN [rec EXCEPT !.pc = "genCode"]
              ELSE AfterGenerate([rec EXCEPT !.upstream = "fetch"],
                                 CaughtResponse("Failed to fetch data"))]
        /\ UNCHANGED <<visualizerVars, validatorVars, storeVars, passed, sandboxVars>>

\* ai-generator.ts lines 233-300: what generateAiCode yields.  mode "nokey":
\* no API key, the fallback template; "throw": the model call fails or yields no
\* content; "answer": the model's text.
GeneratedCode(mode, apiEndpoint, answer) ==
    IF mode = "nokey" THEN generateFallbackComponent(apiEndpoint) ELSE answer

\* ai-generator.ts lines 313-368: generateAiCode resolves, the code is
\* validated and the response built; the caller goes on with it.
GenerateCode(r, mode, answer) ==
    LET rec  == req[r]
        code == GeneratedCode(mode, rec.apiEndpoint, answer)
    IN  /\ rec.pc = "genCode"
        /\ IF mode = "throw"
           THEN /\ req' = [req EXCEPT ![r] =
                      AfterGenerate([rec EXCEPT !.upstream = "generate"],
                                    CaughtResponse("Failed to generate component"))]
                /\ UNCHANGED <<validatorVars, passed>>
           ELSE \E v \in {validateComponentCode(code, lastIndex)} :
                /\ lastIndex' = v.lastIndex
                /\ passed' = IF v.isValid THEN passed \cup {v.sanitizedCode} ELSE passed
                /\ req' = [req EXCEPT ![r] =
                      AfterGenerate([rec EXCEPT !.violations = v.errors],
                                    ResponseFor(rec.apiEndpoint, code, v))]
                /\ UNCHANGED <<lastCall, probe>>
        /\ UNCHANGED <<visualizerVars, storeVars, sandboxVars>>

\* dataFetcher.ts lines 125-158 with part_010 lines 94-134: the response is
\* written to the cache; a store error is caught and reported as false.
CacheStore(r, dbOk) ==
    LET rec == req[r]
        ok  == dbOk /\ StoreSucceeds(db, rec.apiEndpoint, rec.cacheKey, rec.sessionId)
    IN  /\ rec.pc = "store"
        /\ db' = IF ok
                 THEN storeCachedResponse(db, nextDocId, rec.apiEndpoint, rec.cacheKey,
                                          rec.sessionId, CACHE_TTL_HOURS, rec.aiResponse,
                                          now)
                 ELSE db
        /\ nextDocId' = IF ok THEN nextDocId + 1 ELSE nextDocId
        /\ req' = [req EXCEPT ![r] =
              ReturnResult([rec EXCEPT !.stored = IF ok THEN "ok" ELSE "failed"],
                           rec.aiResponse)]
        /\ UNCHANGED <<visualizerVars, validatorVars, sessions, minted, now, passed, sandboxVars>>

\* app/page.tsx lines 11-27: generateServerSideComponent.
StartPage(r) ==
    /\ CanStart(r)
    /\ req' = [req EXCEPT ![r] =
          EnterGenerate([@ EXCEPT !.kind = "page", !.cacheKey = "main-page-component",
                                  !.prior = {q \in Reqs : Done(q)}])]
    /\ UNCHANGED <<visualizerVars, validatorVars, storeVars, passed, sandboxVars>>

\* Time passes.
Tick ==
    /\ now + ClockStep <= MaxClock
    /\ now' = now + ClockStep
    /\ UNCHANGED <<visualizerVars, validatorVars, sessions, minted, db, nextDocId, requestVars,
                   sandboxVars>>

\* The interval timer of the SessionManager constructor.
SweepSessions ==
    /\ sessions' = cleanupExpiredSessions(sessions, now)
    /\ UNCHANGED <<visualizerVars, validatorVars, minted, db, nextDocId, now, requestVars,
                   sandboxVars>>

NextPipeline ==
    \/ \E r \in Reqs, e \in Endpoints, k \in CacheKeys, o \in {NoId, ClientId},
          c \in {NoId} \cup 1..minted, ec \in BOOLEAN :
            StartFetch(r, e, k, o, c, ec)
    \/ \E r \in Reqs : StartPage(r)
    \/ \E r \in Reqs, dbOk \in BOOLEAN : CacheFind(r, dbOk)
    \/ \E r \in Reqs, dbOk \in BOOLEAN : CacheDeleteExpired(r, dbOk)
    \/ \E r \in Reqs, dbOk \in BOOLEAN : CacheTouch(r, dbOk)
    \/ \E r \in Reqs, ok \in BOOLEAN : FetchData(r, ok)
    \/ \E r \in Reqs, mode \in {"nokey", "throw", "answer"}, a \in ModelAnswers :
            GenerateCode(r, mode, a)
    \/ \E r \in Reqs, dbOk \in BOOLEAN : CacheStore(r, dbOk)
    \/ Tick
    \/ SweepSessions

(***************************************************************************)
(* AIResponseCache called directly (part_010), as its other callers do:    *)
(* part_012 looks entries up without a sessionId, app/api/cache/route.ts   *)
(* runs cleanupExpiredCache.  A slot of req holds one call: kind "get",    *)
(* "store" or "cleanup", its options and its position; once the call has   *)
(* returned, the slot holds what it returned.  A call is at:                                                         *)
(*   delete  getCachedResponse awaiting deleteCachedResponse               *)
(*   touch   getCachedResponse awaiting updateAccessStats                  *)
(*   insert  storeCachedResponse: the upsert matched no document and       *)
(*           inserts one                                                   *)
(*   done    returned                                                      *)
(***************************************************************************)
MaxDocs == 2
MaxHits == 2

\* options.apiEndpoint of a direct call.
CacheEndpoints == {"E1"}

\* options.sessionId of a direct call: absent, or an identifier.
CacheSessions == {NoId, ClientId}

\* Two component texts as generateAIComponent hands them on.
SanitizedGood     == sanitizeCode(GoodCode)
SanitizedFallback == sanitizeCode(FALLBACK_COMPONENT)

\* What a direct call stores: a response without options.ttlHours (0 stands
\* for the absent option), or another response with a ttl of one hour.
StoreInputs(apiEndpoint) ==
    {[ttlHours |-> 0, aiResponse |-> SuccessResponse(apiEndpoint, SanitizedGood)],
     [ttlHours |-> 1, aiResponse |-> SuccessResponse(apiEndpoint, SanitizedFallback)]}

\* The two callers that may be inside AIResponseCache at the same time.
CacheSlots == {1, 2}

CacheCall(kind, apiEndpoint, cacheKey, sessionId) ==
    [IdleRequest EXCEPT !.kind = kind, !.apiEndpoint = apiEndpoint,
                        !.cacheKey = cacheKey, !.sessionId = sessionId,
                        !.calledAt = now]

\* What is left of a call once it has returned.
Returned(rec) ==
    [IdleRequest EXCEPT !.pc = "done", !.kind = rec.kind, !.lookup = rec.lookup,
                        !.found = rec.found, !.stored = rec.stored,
                        !.deletedCount = rec.deletedCount]

\* A slot is free for a new call; the lowest free slot is taken.
CanCall(r) ==
    /\ req[r].pc \in {"idle", "done"}
    /\ \A q \in CacheSlots : q < r => req[q].pc \notin {"idle", "done"}

\* part_010 lines 41-70: getCachedResponse up to its first await after
\* findOne.
GetCachedFind(r, apiEndpoint, cacheKey, sessionId) ==
    LET rec == CacheCall("get", apiEndpoint, cacheKey, sessionId)
        ms  == LookupMatches(db, apiEndpoint, sessionId)
    IN  /\ CanCall(r)
        /\ req' = [req EXCEPT ![r] =
              IF ms = {} THEN Returned([rec EXCEPT !.lookup = "miss"])
              ELSE LET d == MostRecent(ms)
                   IN  IF IsExpired(d, now)
                       THEN [rec EXCEPT !.pc = "delete", !.found = d.id]
                       ELSE [rec EXCEPT !.pc = "touch", !.found = d.id,
                                        !.foundResponse = d.aiResponse]]
        /\ UNCHANGED <<visualizerVars, validatorVars, storeVars, passed, sandboxVars>>

\* part_010 lines 65-70: the expired entry is deleted, the call returns
\* {found: false}.
GetCachedExpire(r) ==
    LET rec == req[r]
    IN  /\ rec.kind = "get" /\ rec.pc = "delete"
        /\ db' = deleteCachedResponse(db, rec.apiEndpoint, rec.cacheKey, rec.sessionId)
        /\ req' = [req EXCEPT ![r] = Returned([rec EXCEPT !.lookup = "miss"])]
        /\ UNCHANGED <<visualizerVars, validatorVars, sessions, minted, nextDocId, now, passed,
                       sandboxVars>>

\* part_010 lines 72-84: updateAccessStats, the call returns {found: true}.
GetCachedTouch(r) ==
    LET rec == req[r]
    IN  /\ rec.kind = "get" /\ rec.pc = "touch"
        /\ \A d \in db : d.id = rec.found => d.accessCount < MaxHits
        /\ db' = updateAccessStats(db, rec.found, now)
        /\ req' = [req EXCEPT ![r] = Returned([rec EXCEPT !.lookup = "hit"])]
        /\ UNCHANGED <<visualizerVars, validatorVars, sessions, minted, nextDocId, now, passed,
                       sandboxVars>>

\* part_010 lines 94-126: storeCachedResponse and the first half of its
\* findOneAndUpdate upsert: a document matching the filter is updated in
\* place, otherwise the upsert goes on to insert one.
StoreCachedUpsert(r, apiEndpoint, cacheKey, sessionId, ttlHours, aiResponse) ==
    LET rec == [CacheCall("store", apiEndpoint, cacheKey, sessionId)
                    EXCEPT !.ttlHours = ttlHours, !.aiResponse = aiResponse]
        ms  == UpsertMatches(db, apiEndpoint, cacheKey, sessionId)
    IN  /\ CanCall(r)
        /\ db' = IF ms # {}
                 THEN storeCachedResponse(db, nextDocId, apiEndpoint, cacheKey,
                                          sessionId, ttlHours, aiResponse, now)
                 ELSE db
        /\ req' = [req EXCEPT ![r] =
              IF ms # {} THEN Returned([rec EXCEPT !.stored = "ok"])
              ELSE [rec EXCEPT !.pc = "insert"]]
        /\ UNCHANGED <<visualizerVars, validatorVars, sessions, minted, nextDocId, now, passed,
                       sandboxVars>>

\* part_010 lines 115-133 with part_016 line 58: the insert of the upsert.
\* The unique index refuses it (duplicate key) when a document with the
\* apiEndpoint exists by now; the error is caught and the call returns false.
StoreCachedInsert(r) ==
    LET rec == req[r]
        ok  == UniqueIndexAllows(db, rec.apiEndpoint)
    IN  /\ rec.kind = "store" /\ rec.pc = "insert"
        /\ ok => nextDocId <= MaxDocs
        /\ db' = IF ok
                 THEN storeCachedResponse(db, nextDocId, rec.apiEndpoint, rec.cacheKey,
                                          rec.sessionId, rec.ttlHours, rec.aiResponse,
                                          rec.calledAt)
                 ELSE db
        /\ nextDocId' = IF ok THEN nextDocId + 1 ELSE nextDocId
        /\ req' = [req EXCEPT ![r] =
              Returned([rec EXCEPT !.stored = IF ok THEN "ok" ELSE "failed"])]
        /\ UNCHANGED <<visualizerVars, validatorVars, sessions, minted, now, passed, sandboxVars>>

\* part_010 lines 222-239: cleanupExpiredCache.
CleanupExpired(r) ==
    LET rec  == CacheCall("cleanup", None, None, NoId)
        docs == cleanupExpiredCache(db, now)
    IN  /\ CanCall(r)
        /\ db' = docs
        /\ req' = [req EXCEPT ![r] =
              Returned([rec EXCEPT !.deletedCount = Cardinality(db \ docs)])]
        /\ UNCHANGED <<visualizerVars, validatorVars, sessions, minted, nextDocId, now, passed,
                       sandboxVars>>

NextCache ==
    \/ \E r \in CacheSlots, e \in CacheEndpoints, k \in CacheKeys, s \in CacheSessions :
            GetCachedFind(r, e, k, s)
    \/ \E r \in CacheSlots : GetCachedExpire(r)
    \/ \E r \in CacheSlots : GetCachedTouch(r)
    \/ \E r \in CacheSlots, e \in CacheEndpoints, k \in CacheKeys, s \in CacheSessions :
            \E i \in StoreInputs(e) :
                StoreCachedUpsert(r, e, k, s, i.ttlHours, i.aiResponse)
    \/ \E r \in CacheSlots : StoreCachedInsert(r)
    \/ \E r \in CacheSlots : CleanupExpired(r)
    \/ Tick

(***************************************************************************)
(* SessionManager called directly (session-manager.ts): by the server      *)
(* action createOrGetSession of app/actions/session.ts, by the session     *)
(* step of fetchAiGeneratedUiComponent, by clearSessionCache of part_012,  *)
(* and through its public methods.  A request carries the cookies the      *)
(* browser holds: sessionId is the value of the cookie 'session-id',       *)
(* aiUiSession the value of the cookie 'ai-ui-session' (NoId: not held).   *)
(* Every call runs to its return without another call in between; slot 1   *)
(* of req holds what the latest call returned, setCookie being the value   *)
(* it wrote to the cookie 'session-id' of the response.                    *)
(***************************************************************************)
SessionSlots == {1}

\* Values a cookie of a request may have: none, a made-up one, or an
\* identifier the registry has produced.
CookieValues == {NoId, ClientId} \cup 1..minted

\* getCacheKeyForEndpoint: the key, and the registry after the call.
getCacheKeyForEndpoint(ss, sessionId, apiEndpoint, t) ==
    IF ~ss[sessionId].present
    THEN [value |-> None, sessions |-> ss]
    ELSE [value |-> ss[sessionId].apiEndpoints[apiEndpoint],
          sessions |-> [ss EXCEPT ![sessionId].lastAccessedAt = t]]

\* getSessionEndpoints
getSessionEndpoints(ss, sessionId) ==
    IF ss[sessionId].present
    THEN {e \in Endpoints : ss[sessionId].apiEndpoints[e] # None}
    ELSE {}

\* clearSession
clearSession(ss, sessionId) == [ss EXCEPT ![sessionId] = NoSession]

\* What a call of the registry or of createOrGetSession returned.
SessionReturn(kind, sessionId, from, written) ==
    [IdleRequest EXCEPT !.pc = "done", !.kind = kind, !.sessionId = sessionId,
                        !.sessionFrom = from, !.setCookie = written]

\* app/actions/session.ts lines 10-42.  cookiesOk = FALSE: cookies() of line
\* 15 throws and the catch block returns a session without a cookie.
CreateOrGetSession(r, sessionIdCookie, aiUiSession, cookiesOk) ==
    LET validSessionId == getSessionId(sessions, aiUiSession, now)
        mint == ~cookiesOk \/ validSessionId = NoId
    IN  /\ req[r].pc \in {"idle", "done"}
        /\ mint => minted < MaxRequests
        /\ minted' = IF mint THEN minted + 1 ELSE minted
        /\ sessions' = IF mint THEN generateSessionId(sessions, minted, now)
                       ELSE sessions
        /\ req' = [req EXCEPT ![r] =
              IF mint
              THEN SessionReturn("createOrGet", minted + 1, "minted",
                                 IF cookiesOk THEN minted + 1 ELSE NoId)
              ELSE SessionReturn("createOrGet", validSessionId, "cookie", NoId)]
        /\ UNCHANGED <<visualizerVars, validatorVars, db, nextDocId, now, passed, sandboxVars>>

\* dataFetcher.ts lines 48-66: the session step of
\* fetchAiGeneratedUiComponent.  No cookie is written.
SessionStep(r, apiEndpoint, cacheKey, optSessionId, aiUiSession) ==
    LET existing == getSessionId(sessions, aiUiSession, now)
        mint     == optSessionId = NoId /\ existing = NoId
        sessionId == IF optSessionId # NoId THEN optSessionId
                     ELSE IF existing # NoId THEN existing
                     ELSE minted + 1
        ss1      == IF mint THEN generateSessionId(sessions, minted, now) ELSE sessions
    IN  /\ req[r].pc \in {"idle", "done"}
        /\ mint => minted < MaxRequests
        /\ minted' = IF mint THEN minted + 1 ELSE minted
        /\ sessions' = storeApiEndpointForSession(ss1, sessionId, apiEndpoint,
                                                  cacheKey, now)
        /\ req' = [req EXCEPT ![r] =
              SessionReturn("sessionStep", sessionId,
                            IF optSessionId # NoId THEN "option"
                            ELSE IF existing # NoId THEN "cookie"
                            ELSE "minted", NoId)]
        /\ UNCHANGED <<visualizerVars, validatorVars, db, nextDocId, now, passed, sandboxVars>>

\* session-manager.ts lines 77-83.
GetCacheKeyForEndpoint(r, sessionId, apiEndpoint) ==
    LET got == getCacheKeyForEndpoint(sessions, sessionId, apiEndpoint, now)
    IN  /\ req[r].pc \in {"idle", "done"}
        /\ sessions' = got.sessions
        /\ req' = [req EXCEPT ![r] =
              [SessionReturn("getCacheKey", sessionId, None, NoId)
                  EXCEPT !.cacheKey = got.value]]
        /\ UNCHANGED <<visualizerVars, validatorVars, minted, db, nextDocId, now, passed, sandboxVars>>

\* session-manager.ts lines 88-91.
GetSessionEndpoints(r, sessionId) ==
    /\ req[r].pc \in {"idle", "done"}
    /\ req' = [req EXCEPT ![r] =
          [SessionReturn("getEndpoints", sessionId, None, NoId)
              EXCEPT !.endpoints = getSessionEndpoints(sessions, sessionId)]]
    /\ UNCHANGED <<visualizerVars, validatorVars, storeVars, passed, sandboxVars>>

\* part_012 line 103 with session-manager.ts lines 96-98.
ClearSession(r, sessionId) ==
    /\ req[r].pc \in {"idle", "done"}
    /\ sessions' = clearSession(sessions, sessionId)
    /\ req' = [req EXCEPT ![r] = SessionReturn("clear", sessionId, None, NoId)]
    /\ UNCHANGED <<visualizerVars, validatorVars, minted, db, nextDocId, now, passed, sandboxVars>>

NextSession ==
    \/ \E r \in SessionSlots, c \in CookieValues, a \in CookieValues, ok \in BOOLEAN :
            CreateOrGetSession(r, c, a, ok)
    \/ \E r \in SessionSlots, e \in CacheEndpoints, k \in CacheKeys,
          o \in {NoId, ClientId}, a \in CookieValues :
            SessionStep(r, e, k, o, a)
    \/ \E r \in SessionSlots, s \in AllIds, e \in CacheEndpoints :
            GetCacheKeyForEndpoint(r, s, e)
    \/ \E r \in SessionSlots, s \in AllIds : GetSessionEndpoints(r, s)
    \/ \E r \in SessionSlots, s \in AllIds : ClearSession(r, s)
    \/ Tick
    \/ SweepSessions

(***************************************************************************)
(* SecureAICodeRenderer.tsx: the host component and its iframe.  Windows   *)
(* are numbered: the n-th iframe the component mounts has window n.        *)
(***************************************************************************)
NoWindow    == 0
OtherWindow == -1

MaxMounts == 1
MaxInbox  == 1
MaxSent   == 2

MessageTypes == {"IFRAME_READY", "RENDER_SUCCESS", "RENDER_ERROR", "UNKNOWN"}
RenderError  == "render error"

\* Values of aiResponse.component: the empty string and two artifacts' code.
NoCode == ""
Codes  == {"code1", "code2"}

NoBoundary == [mounts |-> 0, phase |-> "none", timer |-> FALSE]
NoHandled  == [type |-> None, own |-> FALSE, ready |-> FALSE, sent |-> FALSE,
               changed |-> FALSE, readyHandled |-> FALSE]

\* Lines 66-68 and 289-309: the state of a component that has rendered nothing yet.
InitSandbox ==
    /\ isLoading = TRUE
    /\ error = None
    /\ iframeReady = FALSE
    /\ component = NoCode
    /\ dataProp = "given"
    /\ boundary = NoBoundary
    /\ loadTimer = [armed |-> FALSE, sawReady |-> FALSE]
    /\ inbox = <<>>
    /\ toBoundary = <<>>
    /\ sentCount = 0
    /\ handled = NoHandled

\* iframeRef.current?.contentWindow
contentWindow(b) == IF b.phase = "none" THEN NoWindow ELSE b.mounts

HostState == [isLoading |-> isLoading, error |-> error, iframeReady |-> iframeReady]

\* handleMessage without the setError(null) of line 250.
handleMessage_KeepsError(st, event, win) ==
    IF event.source # win THEN st
    ELSE CASE event.type = "IFRAME_READY"   -> [st EXCEPT !.iframeReady = TRUE]
           [] event.type = "RENDER_SUCCESS" -> [st EXCEPT !.isLoading = FALSE]
           [] event.type = "RENDER_ERROR"   -> [st EXCEPT !.isLoading = FALSE,
                                                          !.error = RenderError]
           [] OTHER                         -> st

\* Lines 238-262: handleMessage, as a function of the three state cells.
handleMessage(st, event, win) ==
    IF event.source # win THEN st
    ELSE CASE event.type = "IFRAME_READY"   -> [st EXCEPT !.iframeReady = TRUE]
           [] event.type = "RENDER_SUCCESS" -> [st EXCEPT !.isLoading = FALSE,
                                                          !.error = None]
           [] event.type = "RENDER_ERROR"   -> [st EXCEPT !.isLoading = FALSE,
                                                          !.error = RenderError]
           [] OTHER                         -> st

\* Lines 265-278: whether the send effect, run after a render with the state
\* st1 that followed the state st, posts RENDER_AI_CODE.  The effect runs when
\* one of its dependencies changed; a defaulted data prop is a new array at
\* every render.
EffectSends(st, st1, code, codeChanged, data, win) ==
    /\ st1.iframeReady # st.iframeReady \/ codeChanged \/ data = "default"
    /\ st1.iframeReady
    /\ win # NoWindow
    /\ code # NoCode

\* postMessage to the iframe's window: a document that has not run its script
\* yet has no listener (lines 210-214) and the message is lost.
PostToBoundary(queue, b, code) ==
    IF b.phase = "loaded" THEN Append(queue, code) ELSE queue

\* The parent renders the component with a (new) aiResponse and data prop.
\* Lines 281-287 render no iframe for an empty component; lines 289-309 mount
\* one when there is none.  The state cells are kept.
SetArtifact(c, d) ==
    LET mountsIframe == c # NoCode /\ boundary.phase = "none"
        b1 == IF c = NoCode THEN [boundary EXCEPT !.phase = "none", !.timer = FALSE]
              ELSE IF mountsIframe
                   THEN [mounts |-> boundary.mounts + 1, phase |-> "loading",
                         timer |-> FALSE]
                   ELSE boundary
        sends == EffectSends(HostState, HostState, c, TRUE, d, contentWindow(b1))
    IN  /\ c # component
        /\ mountsIframe => boundary.mounts < MaxMounts
        /\ sends => Len(toBoundary) < MaxSent
        /\ component' = c
        /\ dataProp' = d
        /\ boundary' = b1
        /\ toBoundary' = IF c = NoCode THEN <<>>
                         ELSE IF sends THEN PostToBoundary(toBoundary, b1, c)
                         ELSE toBoundary
        /\ sentCount' = IF sends THEN 1 ELSE 0
        /\ UNCHANGED <<visualizerVars, isLoading, error, iframeReady, loadTimer, inbox, handled,
                   validatorVars, storeVars, requestVars>>

\* Lines 216-230 and 301-308: the iframe's document has run its script and
\* fires load: it posts IFRAME_READY and its own 2000 ms timer is pending; the
\* host's onLoad starts the 1000 ms timer, whose callback reads the
\* iframeReady of the render that created it.
BoundaryLoad ==
    /\ boundary.phase = "loading"
    /\ Len(inbox) < MaxInbox
    /\ boundary' = [boundary EXCEPT !.phase = "loaded", !.timer = TRUE]
    /\ inbox' = Append(inbox, [source |-> boundary.mounts, type |-> "IFRAME_READY"])
    /\ loadTimer' = [armed |-> TRUE, sawReady |-> iframeReady]
    /\ UNCHANGED <<visualizerVars, isLoading, error, iframeReady, component, dataProp, toBoundary,
                   sentCount, handled,
                   validatorVars, storeVars, requestVars>>

\* Lines 79-80, 117-120 and 301-308: the scripts from the CDN did not load,
\* the inline script throws at its first use of React and registers no
\* listener, no load handler and no timer.  The iframe element still fires
\* load, and the host's onLoad starts its timer.
BoundaryLoadFailed ==
    /\ boundary.phase = "loading"
    /\ boundary' = [boundary EXCEPT !.phase = "failed"]
    /\ loadTimer' = [armed |-> TRUE, sawReady |-> iframeReady]
    /\ UNCHANGED <<visualizerVars, isLoading, error, iframeReady, component, dataProp, inbox,
                   toBoundary, sentCount, handled,
                   validatorVars, storeVars, requestVars>>

\* Lines 224-230: the iframe's 2000 ms timer posts IFRAME_READY again.
BoundaryReadyTimer ==
    /\ boundary.phase = "loaded"
    /\ boundary.timer
    /\ Len(inbox) < MaxInbox
    /\ boundary' = [boundary EXCEPT !.timer = FALSE]
    /\ inbox' = Append(inbox, [source |-> boundary.mounts, type |-> "IFRAME_READY"])
    /\ UNCHANGED <<visualizerVars, isLoading, error, iframeReady, component, dataProp, loadTimer,
                   toBoundary, sentCount, handled,
                   validatorVars, storeVars, requestVars>>

\* Lines 125-207 and 210-214: the iframe handles a RENDER_AI_CODE message;
\* renderComponent posts RENDER_SUCCESS, or RENDER_ERROR when it caught an error.
BoundaryRender(ok) ==
    /\ boundary.phase = "loaded"
    /\ toBoundary # <<>>
    /\ Len(inbox) < MaxInbox
    /\ toBoundary' = Tail(toBoundary)
    /\ inbox' = Append(inbox, [source |-> boundary.mounts,
                               type |-> IF ok THEN "RENDER_SUCCESS" ELSE "RENDER_ERROR"])
    /\ UNCHANGED <<visualizerVars, isLoading, error, iframeReady, component, dataProp, boundary,
                   loadTimer, sentCount, handled,
                   validatorVars, storeVars, requestVars>>

\* Any other script running in the iframe's document (the scripts of lines
\* 74-76 loaded from a CDN, the rendered component's own code) posts a message
\* to the parent; its source is the iframe's window.
BoundaryPost(type) ==
    /\ boundary.phase # "none"
    /\ Len(inbox) < MaxInbox
    /\ inbox' = Append(inbox, [source |-> boundary.mounts, type |-> type])
    /\ UNCHANGED <<visualizerVars, isLoading, error, iframeReady, component, dataProp, boundary,
                   loadTimer, toBoundary, sentCount, handled,
                   validatorVars, storeVars, requestVars>>

\* A window other than the iframe's posts a message to the host window.
OtherPost(type) ==
    /\ Len(inbox) < MaxInbox
    /\ inbox' = Append(inbox, [source |-> OtherWindow, type |-> type])
    /\ UNCHANGED <<visualizerVars, isLoading, error, iframeReady, component, dataProp, boundary,
                   loadTimer, toBoundary, sentCount, handled,
                   validatorVars, storeVars, requestVars>>

\* A state update that changed a cell re-renders the component, and the send
\* effect of lines 265-278 runs after the render.
Commit(st1) ==
    LET win   == contentWindow(boundary)
        sends == st1 # HostState
                 /\ EffectSends(HostState, st1, component, FALSE, dataProp, win)
    IN  /\ sends => sentCount < MaxSent /\ Len(toBoundary) < MaxSent
        /\ isLoading' = st1.isLoading
        /\ error' = st1.error
        /\ iframeReady' = st1.iframeReady
        /\ toBoundary' = IF sends THEN PostToBoundary(toBoundary, boundary, component)
                         ELSE toBoundary
        /\ sentCount' = IF sends THEN sentCount + 1 ELSE sentCount

\* Lines 238-262: the host window dispatches the next message event to
\* handleMessage.
HandleMessage ==
    LET event == Head(inbox)
        win   == contentWindow(boundary)
        st1   == handleMessage(HostState, event, win)
    IN  /\ inbox # <<>>
        /\ inbox' = Tail(inbox)
        /\ Commit(st1)
        /\ handled' = [type |-> event.type,
                       own |-> event.source = win, ready |-> iframeReady,
                       sent |-> sentCount > 0, changed |-> st1 # HostState,
                       readyHandled |-> handled.readyHandled
                                        \/ (event.source = win
                                            /\ event.type = "IFRAME_READY")]
        /\ UNCHANGED <<visualizerVars, component, dataProp, boundary, loadTimer,
                   validatorVars, storeVars, requestVars>>

\* The timer callback without its setIframeReady(true).
onLoadTimeout_NoFallback(st, sawReady) == st

\* Lines 303-307: the callback of the onLoad timer; sawReady is the
\* iframeReady of the render whose onLoad handler started the timer.
onLoadTimeout(st, sawReady) ==
    IF ~sawReady THEN [st EXCEPT !.iframeReady = TRUE] ELSE st

\* Lines 301-308: the onLoad timer fires.
LoadTimerFire ==
    /\ loadTimer.armed
    /\ loadTimer' = [loadTimer EXCEPT !.armed = FALSE]
    /\ Commit(onLoadTimeout(HostState, loadTimer.sawReady))
    /\ UNCHANGED <<visualizerVars, component, dataProp, boundary, inbox, handled,
                   validatorVars, storeVars, requestVars>>

NextSandbox ==
    \/ \E c \in Codes \cup {NoCode}, d \in {"given", "default"} : SetArtifact(c, d)
    \/ BoundaryLoad
    \/ BoundaryLoadFailed
    \/ BoundaryReadyTimer
    \/ \E ok \in BOOLEAN : BoundaryRender(ok)
    \/ \E t \in MessageTypes : BoundaryPost(t)
    \/ \E t \in MessageTypes : OtherPost(t)
    \/ HandleMessage
    \/ LoadTimerFire

(***************************************************************************)
(* VisualizerClientWrapper (components/ThemeSwitcher.tsx, lines 83-177)    *)
(* and the route it calls (app/api/regenerate/route.ts).  wrapper holds    *)
(* the component's four useState cells; regenerations lists the calls of   *)
(* regenerateComponent made so far, each with the theme it was made for    *)
(* and whether its fetch is still awaited.  Every call closes over the     *)
(* same four setters, and no call is aborted or superseded by a later one. *)
(***************************************************************************)
\* The two theme options (lines 25 and 38-58; route.ts line 20).
Themes == {"purple-night", "ocean-blue"}

MaxRegenerations == 4

\* The visualize page passes initialData = null (app/visualize/page.tsx).
NoData == [present |-> FALSE, success |-> FALSE, theme |-> None]

\* How a regenerate request can end: "ok" (status 200, result.success true),
\* "failed" (status 200 carrying generateAIComponent's error response),
\* "httpError" (status 400 or 500, or the fetch itself rejected).
RegenerateOutcomes == {"ok", "failed", "httpError"}

\* route.ts lines 5-51: the JSON body GET answers with status 200.  The
\* theme field records the theme the route passed to generateAIComponent,
\* that is, the theme the component in the body was generated for.
RegenerateResult(theme, outcome) ==
    [present |-> TRUE, success |-> outcome = "ok", theme |-> theme]

InitVisualizer ==
    /\ wrapper = [theme |-> "purple-night", isLoading |-> FALSE,
                  data |-> NoData, error |-> None]
    /\ regenerations = <<>>

\* Lines 93-96: what regenerateComponent does before it awaits the fetch.
regenerateStarted(w, newTheme) ==
    [w EXCEPT !.theme = newTheme, !.isLoading = TRUE, !.error = None]

\* Lines 98-119: what regenerateComponent does once its fetch is settled:
\* setData with the body, or setError from the catch block; the finally
\* block clears isLoading whichever call this is.
regenerateSettled(w, theme, outcome) ==
    LET w1 == IF outcome = "httpError"
              THEN [w EXCEPT !.error = "Failed to regenerate component"]
              ELSE [w EXCEPT !.data = RegenerateResult(theme, outcome)]
    IN  [w1 EXCEPT !.isLoading = FALSE]

\* Lines 122-126: handleThemeChange, called by a click on a theme button or
\* by ThemeSwitcher's mount effect with the saved preference; it calls
\* regenerateComponent when the theme differs from the current one.
HandleThemeChange(newTheme) ==
    /\ wrapper.theme # newTheme
    /\ Len(regenerations) < MaxRegenerations
    /\ wrapper' = regenerateStarted(wrapper, newTheme)
    /\ regenerations' = Append(regenerations,
                               [theme |-> newTheme, pending |-> TRUE])
    /\ UNCHANGED <<validatorVars, storeVars, requestVars, sandboxVars>>

\* The fetch of call k is settled and the rest of that call runs.
RegenerateSettle(k, outcome) ==
    /\ k \in 1..Len(regenerations)
    /\ regenerations[k].pending
    /\ wrapper' = regenerateSettled(wrapper, regenerations[k].theme, outcome)
    /\ regenerations' = [regenerations EXCEPT ![k].pending = FALSE]
    /\ UNCHANGED <<validatorVars, storeVars, requestVars, sandboxVars>>

NextVisualizer ==
    \/ \E t \in Themes : HandleThemeChange(t)
    \/ \E k \in 1..MaxRegenerations, o \in RegenerateOutcomes :
           RegenerateSettle(k, o)

(***************************************************************************)
(* Properties of the orchestrator (checked under Spec)                     *)
(***************************************************************************)
\* What a finished request handed to its caller.
Handed(r) == req[r].result.aiResponse.component

\* The fallback texts, as constructed and as sanitizeCode leaves them.
FallbackArtifacts == FallbackTexts \cup {sanitizeCode(t) : t \in FallbackTexts}

FreshLastIndex == [i \in PatternIds |-> 0]

\* C1: every non-empty component text a finished request hands to its caller
\* (from the cache, from a fresh generation, or from the page-level call) is
\* the sanitized text of a validateComponentCode call that returned
\* isValid = true, or is one of the fallback texts.
C1_HandedTextPassedValidator ==
    \A r \in Reqs :
        Done(r) /\ Handed(r) # <<>> => Handed(r) \in passed \cup FallbackTexts

\* A request served a non-empty text from the cache, after another one
\* generated, validated and stored it.
C1_Witness ==
    \E r, q \in Reqs :
        /\ Done(r) /\ req[r].lookup = "hit" /\ Handed(r) # <<>>
        /\ Done(q) /\ req[q].genInvoked /\ req[q].stored = "ok"
        /\ Handed(q) = Handed(r)

\* C2: in a fetchAiGeneratedUiComponent call with caching enabled,
\* generateAIComponent is invoked only after the call's cache lookup returned
\* not-found; when the lookup found an entry the call has returned the cached
\* response and never invoked generation.
C2_GenerationOnlyAfterMiss ==
    \A r \in Reqs :
        req[r].kind = "fetch" /\ req[r].enableCaching =>
            /\ req[r].genInvoked => req[r].lookup = "miss"
            /\ req[r].lookup = "hit" =>
                   /\ ~req[r].genInvoked
                   /\ Done(r)
                   /\ req[r].result.aiResponse = req[r].foundResponse

\* One caching request missed and generated, another one hit and returned.
C2_Witness ==
    \E r, q \in Reqs :
        /\ req[r].enableCaching /\ req[r].lookup = "hit" /\ Done(r)
        /\ req[q].enableCaching /\ req[q].lookup = "miss" /\ req[q].genInvoked

\* C3: when endpoint E and cacheKey K are requested twice with caching enabled
\* and no session supplied (no sessionId option, no valid session cookie), the
\* first request missing, generating, passing validation and storing, then the
\* second request (started after the first returned, no time having passed) is
\* a cache hit and does not invoke generation: its lookup finds the entry the
\* first request stored, and once it has returned it has not generated.
C3_SecondRequestHits ==
    \A r1, r2 \in Reqs :
        ( /\ r1 \in req[r2].prior
          /\ req[r1].kind = "fetch" /\ req[r2].kind = "fetch"
          /\ req[r1].enableCaching /\ req[r2].enableCaching
          /\ req[r1].apiEndpoint = req[r2].apiEndpoint
          /\ req[r1].cacheKey = req[r2].cacheKey
          /\ req[r1].sessionFrom = "minted" /\ req[r2].sessionFrom = "minted"
          /\ req[r1].lookup = "miss" /\ req[r1].stored = "ok"
          /\ now = 0 )
        => /\ req[r2].pc = "find" =>
                \E d \in LookupMatches(db, req[r2].apiEndpoint, req[r2].sessionId) :
                    ~IsExpired(d, now)
           /\ Done(r2) /\ req[r2].lookup = "hit" => ~req[r2].genInvoked

\* C7: when the generated source fails validation, the finished request hands
\* a fallback text to its caller, the violations are not empty, and the handed
\* text passes validateComponentCode.
C7_ValidationFailureYieldsFallback ==
    \A r \in Reqs :
        Done(r) /\ req[r].violations # <<>> =>
            /\ Handed(r) \in FallbackArtifacts
            /\ validateComponentCode(Handed(r), FreshLastIndex).isValid

\* C8: a request whose data fetch or generation failed finishes with a
\* renderable response: a successful one, or a non-empty fallback text
\* together with an error string.
C8_UpstreamFailureYieldsRenderable ==
    \A r \in Reqs :
        Done(r) /\ req[r].upstream # "none" =>
            \/ req[r].result.aiResponse.success /\ Handed(r) # <<>>
            \/ /\ Handed(r) # <<>>
               /\ Handed(r) \in FallbackArtifacts
               /\ req[r].result.error # None

(***************************************************************************)
(* Properties of the validator (checked under SpecValidator)               *)
(***************************************************************************)
ContainsDenylisted(code, i) == \E k \in 1..Len(code) : MatchAt(i, code, k)

\* C4: every call of validateComponentCode, in any sequence of calls, on a
\* text that contains a denylisted construct returns isValid = false with an
\* error naming that construct.
C4_DenylistedAlwaysRejected ==
    lastCall.made =>
        \A i \in PatternIds :
            ContainsDenylisted(lastCall.code, i) =>
                /\ ~lastCall.isValid
                /\ \E k \in 1..Len(lastCall.errors) :
                       lastCall.errors[k] = DangerError(i)

\* C5: two calls of validateComponentCode with the same text return the same
\* isValid and the same errors, whatever calls happened before or between.
C5_ValidatorDeterministic ==
    probe.made /\ lastCall.made /\ probe.code = lastCall.code =>
        /\ probe.isValid = lastCall.isValid
        /\ probe.errors = lastCall.errors

\* C6: validateComponentCode accepts every fallback text the sources construct
\* (FALLBACK_COMPONENT, generateFallbackComponent of an endpoint, the error
\* fallback of fetchAiGeneratedUiComponent).
C6_FallbacksPassValidation ==
    lastCall.made /\ lastCall.code \in FallbackTexts => lastCall.isValid

(***************************************************************************)
(* Properties of the sandbox host (checked under SpecSandbox)              *)
(***************************************************************************)
\* C9: once the iframe has delivered IFRAME_READY and, after the host posted
\* RENDER_AI_CODE, delivers RENDER_SUCCESS, the host is in RenderedOk:
\* isLoading = false and error = null.
C9_ReadyThenSuccessRendersOk ==
    ( /\ handled.type = "RENDER_SUCCESS"
      /\ handled.own
      /\ handled.ready
      /\ handled.sent )
    => isLoading = FALSE /\ error = None

\* The host handled IFRAME_READY, posted RENDER_AI_CODE once, then handled
\* RENDER_SUCCESS, all with the iframe it mounted first.
C9_Witness ==
    /\ handled.type = "RENDER_SUCCESS"
    /\ handled.own
    /\ handled.readyHandled
    /\ handled.sent
    /\ sentCount = 1
    /\ boundary.mounts = 1
    /\ isLoading = FALSE
    /\ error = None

\* C10: a message that is not valid for the current state is discarded: the
\* message last handled did not change isLoading, error or iframeReady when
\* its source was not the iframe's window, when its type was not a known one,
\* or when it was a RENDER_ERROR or RENDER_SUCCESS arriving before any
\* readiness and before the host posted RENDER_AI_CODE.
C10_OutOfStateMessageDiscarded ==
    ( \/ ~handled.own
      \/ handled.type = "UNKNOWN"
      \/ /\ handled.type \in {"RENDER_ERROR", "RENDER_SUCCESS"}
         /\ ~handled.ready
         /\ ~handled.sent )
    => ~handled.changed

\* The states of the host machine that end a rendering.
RenderedOk    == isLoading = FALSE /\ error = None
RenderedError == isLoading = FALSE /\ error # None

\* No message posted by the iframe's document is waiting for the host.
BoundarySilent == \A k \in 1..Len(inbox) : inbox[k].source = OtherWindow

\* C11: when the iframe stays mounted and never posts any message, the host
\* eventually shows an error with loading ended (RenderedError).
C11_SilentBoundaryEndsInError ==
    ([]BoundarySilent /\ <>[](boundary.phase # "none")) => <>RenderedError

\* C12: when the onLoad timer fires while the host has not seen any readiness
\* (iframeReady = false) and an artifact is shown, the host sets iframeReady
\* and posts one RENDER_AI_CODE carrying the artifact's code, which a
\* listening iframe receives.
C12_FallbackProceedsToRendering ==
    [][ ( /\ loadTimer.armed /\ ~loadTimer'.armed
          /\ ~iframeReady
          /\ component # NoCode )
        => /\ iframeReady'
           /\ sentCount' = sentCount + 1
           /\ boundary.phase = "loaded" =>
                  toBoundary' = Append(toBoundary, component) ]_vars

\* The iframe loaded and posted IFRAME_READY, the host has not handled it (nor
\* any other IFRAME_READY), the onLoad timer fired and the host posted the code.
C12_Witness ==
    /\ component # NoCode
    /\ boundary.phase = "loaded"
    /\ ~loadTimer.armed
    /\ ~handled.readyHandled
    /\ iframeReady
    /\ sentCount = 1
    /\ toBoundary = <<component>>

\* C13: the host posts at most one RENDER_AI_CODE for the artifact it shows.
C13_OneExecuteRequestPerArtifact == sentCount <= 1

\* C14: a step that replaces the shown artifact by another one mounts a new
\* iframe, resets iframeReady, sets isLoading, clears the error and has not
\* posted the new code yet.
C14_NewArtifactRestartsMachine ==
    [][ ( /\ component # NoCode
          /\ component' # NoCode
          /\ component' # component )
        => /\ boundary'.mounts = boundary.mounts + 1
           /\ boundary'.phase = "loading"
           /\ iframeReady' = FALSE
           /\ isLoading' = TRUE
           /\ error' = None
           /\ sentCount' = 0 ]_vars

\* C15: while the artifact stays the same, handling a message from the iframe
\* in RenderedOk leaves the host in RenderedOk, and in RenderedError leaves it
\* in RenderedError.
C15_RenderedStatesTerminal ==
    [][ ( /\ component' = component
          /\ inbox # <<>> /\ inbox' = Tail(inbox)
          /\ Head(inbox).source = contentWindow(boundary) )
        => /\ RenderedOk => RenderedOk'
           /\ RenderedError => RenderedError' ]_vars

(***************************************************************************)
(* Properties of the cache store (checked under SpecCache)                 *)
(***************************************************************************)
\* This step is the return of a storeCachedResponse call with the given
\* options and response: the upsert updated a document, or its insert went
\* through or was refused.
StoreReturns(r, apiEndpoint, cacheKey, sessionId, ttlHours, aiResponse) ==
    \/ /\ req[r].pc # "insert"
       /\ StoreCachedUpsert(r, apiEndpoint, cacheKey, sessionId, ttlHours, aiResponse)
       /\ req'[r].pc = "done"
    \/ /\ req[r].pc = "insert"
       /\ req[r].apiEndpoint = apiEndpoint
       /\ req[r].cacheKey = cacheKey
       /\ req[r].sessionId = sessionId
       /\ req[r].ttlHours = ttlHours
       /\ req[r].aiResponse = aiResponse
       /\ StoreCachedInsert(r)

\* The time at which the call that slot r holds, or takes in this step, was
\* made.
CallTime(r) == IF req[r].pc = "insert" THEN req[r].calledAt ELSE now

\* The entries stored under a composite key.
EntriesOf(docs, apiEndpoint, cacheKey, sessionId) ==
    {d \in docs : /\ d.apiEndpoint = apiEndpoint
                  /\ d.cacheKey = cacheKey
                  /\ d.sessionId = sessionId}

\* C16: the entry a getCachedResponse call finds and goes on to return was
\* stored under the call's composite key: same apiEndpoint, same cacheKey and
\* same sessionId (an absent sessionId matching only an entry stored without).
C16_LookupReturnsOnlyItsKey ==
    [][ \A r \in CacheSlots, e \in CacheEndpoints, k \in CacheKeys, s \in CacheSessions :
            GetCachedFind(r, e, k, s) /\ req'[r].pc = "touch" =>
                \E d \in EntriesOf(db, e, k, s) : d.id = req'[r].found ]_vars

\* C17: when a storeCachedResponse call returns (no time having passed since
\* it was made), a lookup with the same composite key finds a live entry (a
\* hit); the updateAccessStats of a hit
\* adds exactly one to the entry's accessCount and sets its lastAccessedAt;
\* and accessCount changes in no other way than by a hit or by a store
\* resetting it to 0.
C17_StoreThenLookupHitsAndCounts ==
    [][ /\ \A r \in CacheSlots, e \in CacheEndpoints, k \in CacheKeys,
             s \in CacheSessions :
             \A i \in StoreInputs(e) :
                StoreReturns(r, e, k, s, i.ttlHours, i.aiResponse) /\ CallTime(r) = now =>
                    \E d \in LookupMatches(db', e, s) : ~IsExpired(d, now)
        /\ \A r \in CacheSlots :
             GetCachedTouch(r) =>
                \A d \in db : d.id = req[r].found =>
                    \E d2 \in db' : /\ d2.id = d.id
                                    /\ d2.accessCount = d.accessCount + 1
                                    /\ d2.lastAccessedAt = now
        /\ \A d \in db, d2 \in db' :
             d2.id = d.id /\ d2.accessCount # d.accessCount =>
                \/ d2.accessCount = 0
                \/ /\ d2.accessCount = d.accessCount + 1
                   /\ \E r \in CacheSlots : GetCachedTouch(r) ]_vars

C19_OneEntryPerKeyLastWriteWins ==
    [][ /\ \A d1, d2 \in db' :
             ( /\ d1.apiEndpoint = d2.apiEndpoint
               /\ d1.cacheKey = d2.cacheKey
               /\ d1.sessionId = d2.sessionId ) => d1 = d2
        /\ \A r \in CacheSlots, e \in CacheEndpoints, k \in CacheKeys,
             s \in CacheSessions :
             \A i \in StoreInputs(e) :
                StoreReturns(r, e, k, s, i.ttlHours, i.aiResponse) =>
                    /\ req'[r].stored = "ok"
                    /\ \E d \in EntriesOf(db', e, k, s) :
                           d.aiResponse = i.aiResponse ]_vars

\* C20: the entry written by a storeCachedResponse call has
\* expiresAt = (time of the call) + ttlHours when the call gave a ttl, and has
\* no expiresAt when it gave none.
C20_ExpiresAtFromTtl ==
    [][ \A r \in CacheSlots, e \in CacheEndpoints, k \in CacheKeys,
          s \in CacheSessions :
          \A i \in StoreInputs(e) :
             ( /\ StoreReturns(r, e, k, s, i.ttlHours, i.aiResponse)
               /\ req'[r].stored = "ok" )
             => \A d \in EntriesOf(db', e, k, s) :
                    d.expiresAt = IF i.ttlHours # 0 THEN CallTime(r) + i.ttlHours
                                  ELSE NoExpiry ]_vars

\* C29: the delete that getCachedResponse issues after finding an expired
\* entry removes no entry that is not expired.
C29_LookupDeletesOnlyExpired ==
    [][ \A r \in CacheSlots :
          GetCachedExpire(r) => \A d \in db \ db' : IsExpired(d, now) ]_vars

(***************************************************************************)
(* Properties of the sanitizer (checked under SpecValidator)               *)
(***************************************************************************)
\* A text without its packaging: code fences and import statements removed,
\* the export keyword stripped from the statements that start with it.
PackagingRemoved(code) ==
    LET noFence  == SelectSeq(code, LAMBDA f : ~IsFence(f))
        noImport == SelectSeq(noFence, LAMBDA f : f # IMPORT_L)
    IN  [k \in 1..Len(noImport) |-> StripExport(noImport[k])]

\* C26: for every text validateComponentCode accepts, the sanitized text is
\* the text without its packaging: nothing else is removed or changed.
C26_SanitizeRemovesOnlyPackaging ==
    lastCall.made /\ lastCall.isValid =>
        sanitizeCode(lastCall.code) = PackagingRemoved(lastCall.code)

\* Fragment f ends in an identifier character and the next fragment follows
\* it without white space: the two belong to one identifier.
JoinsNext(f) == f \in {URL_PHOT, EVAL_HEAD}

\* The letters "os." occur in the text, and only as the tail of a longer
\* identifier followed by a dot.
NamespaceOnlyAsTail(code) ==
    /\ \E k \in 1..Len(code) : code[k] = OS_DOT
    /\ \A k \in 1..Len(code) :
          code[k] = OS_DOT => k > 1 /\ JoinsNext(code[k - 1])

\* C27: a text in which "os." occurs only as the tail of a longer identifier
\* and that breaks no other rule (the only errors a call could report are
\* those of the os rule) is accepted.
C27_NamespaceRuleNeedsWholeIdentifier ==
    ( /\ lastCall.made
      /\ NamespaceOnlyAsTail(lastCall.code)
      /\ \A k \in 1..Len(lastCall.errors) : lastCall.errors[k] = DangerError(20) )
    => lastCall.isValid

\* C28: the sanitized text of every text validateComponentCode accepts
\* contains no denylisted construct.
C28_SanitizedHasNoDenylisted ==
    lastCall.made /\ lastCall.isValid =>
        \A i \in PatternIds : ~ContainsDenylisted(sanitizeCode(lastCall.code), i)

(***************************************************************************)
(* Properties of the orchestrator's cache and session steps (checked under *)
(* Spec)                                                                   *)
(***************************************************************************)
\* C21: a backing-store error in any step of getCachedResponse (the find,
\* the delete of an expired entry, the access-statistics update) makes the
\* lookup a miss; a backing-store error in storeCachedResponse makes it return
\* false, and the request still returns, with success, the response that
\* generateAIComponent produced.
C21_CacheErrorsNeverSurface ==
    [][ \A r \in Reqs :
         /\ (CacheFind(r, FALSE) \/ CacheDeleteExpired(r, FALSE) \/ CacheTouch(r, FALSE))
               => req'[r].lookup = "miss"
         /\ CacheStore(r, FALSE)
               => /\ req'[r].stored = "failed"
                  /\ Done(r)'
                  /\ req'[r].result.success
                  /\ req'[r].result.aiResponse = req[r].aiResponse ]_vars

\* C24: no session is registered under an identifier that a caller
\* supplied; every registered identifier came from randomUUID.
C24_SessionIdsMintedByRegistry ==
    \A id \in AllIds : sessions[id].present => id \in 1..minted

\* C25: every request that has started eventually returns, also when
\* fetchAPIData's fetch or generateAiCode's model call never answers.
C25_EveryRequestCompletes ==
    \A r \in Reqs : (req[r].pc # "idle") ~> Done(r)

(***************************************************************************)
(* Properties of the session registry (checked under SpecSession)          *)
(***************************************************************************)
\* C22: once a call has minted a session v and written v to the cookie of
\* its response, a later createOrGetSession or session step of the
\* orchestrator whose request carries that cookie (and nothing else), made
\* while session v is not expired, resolves to v and mints no session.
C22_ValidTokenResolvesToSameSession ==
    [][ \A r \in SessionSlots, v \in MintedIds :
          ( /\ req[r].setCookie = v
            /\ isValidSession(sessions, v, now) )
          => /\ CreateOrGetSession(r, v, NoId, TRUE)
                  => req'[r].sessionId = v /\ minted' = minted
             /\ \A e \in CacheEndpoints, k \in CacheKeys :
                  SessionStep(r, e, k, NoId, NoId)
                      => req'[r].sessionId = v /\ minted' = minted ]_vars

\* Session s is in the registry and has been idle for the session TTL or
\* longer: the next sweep removes it.
ExpiredUnswept(s) ==
    /\ sessions[s].present
    /\ now - sessions[s].lastAccessedAt >= SESSION_EXPIRY_HOURS

\* C23: while a session is expired and not yet swept, getSessionId (in
\* createOrGetSession and in the orchestrator's session step) does not return
\* it for a cookie that names it, getCacheKeyForEndpoint returns no key and
\* getSessionEndpoints no endpoint for it, and no step makes it valid again.
C23_ExpiredSessionSatisfiesNoLookup ==
    [][ \A r \in SessionSlots, s \in AllIds :
          ExpiredUnswept(s) =>
             /\ \A c \in CookieValues :
                  CreateOrGetSession(r, c, s, TRUE) => req'[r].sessionId # s
             /\ \A e \in CacheEndpoints, k \in CacheKeys :
                  SessionStep(r, e, k, NoId, s) => req'[r].sessionId # s
             /\ \A e \in CacheEndpoints :
                  GetCacheKeyForEndpoint(r, s, e) => req'[r].cacheKey = None
             /\ GetSessionEndpoints(r, s) => req'[r].endpoints = {}
             /\ ~isValidSession(sessions', s, now') ]_vars

(***************************************************************************)
(* Properties of the theme switching (checked under SpecVisualizer)        *)
(***************************************************************************)
\* Lines 128-176: the branch of the render that shows the generated
\* component.
ComponentDisplayed ==
    ~wrapper.isLoading /\ wrapper.error = None /\ wrapper.data.success

AllRegenerationsCompleted ==
    \A k \in 1..Len(regenerations) : ~regenerations[k].pending

\* C30: once all regenerate requests have completed, the displayed
\* component is the one generated for the currently selected theme; and the
\* loading indicator is shown as long as a request for the currently
\* selected theme is still in flight.
C30_DisplayedMatchesSelectedTheme ==
    /\ (AllRegenerationsCompleted /\ ComponentDisplayed)
           => wrapper.data.theme = wrapper.theme
    /\ (\E k \in 1..Len(regenerations) :
            regenerations[k].pending /\ regenerations[k].theme = wrapper.theme)
           => wrapper.isLoading

(***************************************************************************)
(* Specifications                                                          *)
(***************************************************************************)
Init ==
    InitValidator /\ InitStore /\ InitRequests /\ InitSandbox /\ InitVisualizer

Spec == Init /\ [][NextPipeline]_vars

\* The steps of request r that the code itself bounds: the store operations
\* of AIResponseCache run on a connection with serverSelectionTimeoutMS and
\* socketTimeoutMS, so each of them ends, in a result or in an error.  The
\* fetch of fetchAPIData and the model call of generateAiCode are given no
\* timeout and no abort signal: whether FetchData and GenerateCode ever
\* happen is up to the remote server.
BoundedSteps(r) ==
    \E dbOk \in BOOLEAN :
        \/ CacheFind(r, dbOk)
        \/ CacheDeleteExpired(r, dbOk)
        \/ CacheTouch(r, dbOk)
        \/ CacheStore(r, dbOk)

PipelineFairness == \A r \in Reqs : WF_vars(BoundedSteps(r))

SpecLive == Init /\ [][NextPipeline]_vars /\ PipelineFairness

SpecValidator == Init /\ [][NextValidator]_vars

SpecCache == Init /\ [][NextCache]_vars

SpecSession == Init /\ [][NextSession]_vars

SpecSandbox == Init /\ [][NextSandbox]_vars

SpecVisualizer == Init /\ [][NextVisualizer]_vars

\* What the browser guarantees to happen: queued message events are
\* dispatched, started timers fire, a document that is being loaded ends
\* loading one way or the other, and the iframe's listener answers every
\* RENDER_AI_CODE it receives.
SandboxFairness ==
    /\ WF_vars(HandleMessage)
    /\ WF_vars(LoadTimerFire)
    /\ WF_vars(BoundaryLoad \/ BoundaryLoadFailed)
    /\ WF_vars(BoundaryReadyTimer)
    /\ WF_vars(\E ok \in BOOLEAN : BoundaryRender(ok))

SpecSandboxLive == Init /\ [][NextSandbox]_vars /\ SandboxFairness
====
